---- MODULE Spec2Model ----
(***************************************************************************)
(* Model of distributions.py: the emission distributions Gaussian,        *)
(* SquareDistance and KL, and the online accumulator                      *)
(* KLSufficientStatistics.                                                 *)
(*                                                                         *)
(* Numbers are exact rationals <<n, d>> in lowest terms with d > 0; the   *)
(* non-finite floating point values a division by zero produces are       *)
(* <<1, 0>> (inf), <<-1, 0>> (-inf) and <<0, 0>> (nan).  Rounding and     *)
(* signed zeros are not modelled.  Arrays are functions over 0..n-1, as   *)
(* numpy indexes them.                                                     *)
(***************************************************************************)
EXTENDS Integers, Sequences, FiniteSets, TLC

VARIABLES
    dist,       \* the Distribution instance the driver holds
    ss,         \* the KLSufficientStatistics instance, or NoSS before it is made
    lastCall,   \* the last call the driver made, with its arguments
    outcome,    \* how that call ended: "returned" or the exception raised
    result,     \* what that call returned (None when it raised or returns nothing)
    nUpdates,   \* number of online updates applied so far
    pre         \* what has held of every argument given so far

vars == <<dist, ss, lastCall, outcome, result, nUpdates, pre>>

----------------------------------------------------------------------------
(* Bounds of the model *)

Dim == 2
NObs == 3
MaxK == 2
MaxUpdates == 2
MaxOnline == 2
MaxGeoUpdates == 4

----------------------------------------------------------------------------
(* float arithmetic *)

Abs(n) == IF n < 0 THEN -n ELSE n

Sgn(n) == IF n > 0 THEN 1 ELSE IF n < 0 THEN -1 ELSE 0

RECURSIVE GCD(_, _)
GCD(a, b) == IF b = 0 THEN a ELSE GCD(b, a % b)

Q(n, d) ==
    IF d = 0 THEN <<Sgn(n), 0>>
    ELSE LET g == GCD(Abs(n), Abs(d))
             s == IF d < 0 THEN -1 ELSE 1
         IN  <<(s * n) \div g, (s * d) \div g>>

Zero == <<0, 1>>
One == <<1, 1>>
Half == <<1, 2>>
NaN == <<0, 0>>

IsFinite(a) == a[2] # 0
IsNaN(a) == a = NaN

RNeg(a) == <<-a[1], a[2]>>

RAdd(a, b) ==
    IF IsNaN(a) \/ IsNaN(b) THEN NaN
    ELSE IF ~IsFinite(a) /\ ~IsFinite(b) THEN (IF a = b THEN a ELSE NaN)
    ELSE IF ~IsFinite(a) THEN a
    ELSE IF ~IsFinite(b) THEN b
    ELSE Q(a[1] * b[2] + b[1] * a[2], a[2] * b[2])

RSub(a, b) == RAdd(a, RNeg(b))

RMul(a, b) ==
    IF IsNaN(a) \/ IsNaN(b) THEN NaN
    ELSE IF ~IsFinite(a) \/ ~IsFinite(b)
         THEN <<Sgn(a[1]) * Sgn(b[1]), 0>>
    ELSE Q(a[1] * b[1], a[2] * b[2])

RDiv(a, b) ==
    IF IsNaN(a) \/ IsNaN(b) THEN NaN
    ELSE IF ~IsFinite(b) THEN (IF IsFinite(a) THEN Zero ELSE NaN)
    ELSE IF ~IsFinite(a) THEN <<a[1] * (IF b[1] < 0 THEN -1 ELSE 1), 0>>
    ELSE IF b[1] = 0 THEN <<Sgn(a[1]), 0>>
    ELSE Q(a[1] * b[2], a[2] * b[1])

\* a >= 0; false of nan, as every float comparison with nan is
RGeqZero(a) == ~IsNaN(a) /\ a[1] >= 0

RGtZero(a) == ~IsNaN(a) /\ a[1] > 0

\* a <= b on finite values
RLeq(a, b) == IsFinite(a) /\ IsFinite(b) /\ a[1] * b[2] <= b[1] * a[2]

RLt(a, b) == IsFinite(a) /\ IsFinite(b) /\ a[1] * b[2] < b[1] * a[2]

RECURSIVE RPow(_, _)
RPow(a, n) == IF n = 0 THEN One ELSE RMul(a, RPow(a, n - 1))

----------------------------------------------------------------------------
(* numpy arrays *)

Idx(n) == 0 .. (n - 1)

Size(v) == Cardinality(DOMAIN v)

RECURSIVE SumTo(_, _)
SumTo(f, n) == IF n = 0 THEN Zero ELSE RAdd(SumTo(f, n - 1), f[n - 1])

\* np.sum(v) of a vector
Sum(v) == SumTo(v, Size(v))

\* u.dot(v) of two vectors
Dot(u, v) == Sum([i \in DOMAIN u |-> RMul(u[i], v[i])])

\* v.dot(r): vector times matrix, entry j is sum_i v[i] * r[i][j]
VecDotMat(v, r) ==
    [j \in DOMAIN r[0] |-> Sum([i \in DOMAIN v |-> RMul(v[i], r[i][j])])]

\* A.dot(B) of two matrices
MatDotMat(A, B) == [a \in DOMAIN A |-> VecDotMat(A[a], B)]

\* A.dot(v): matrix times vector
MatDotVec(A, v) == [a \in DOMAIN A |-> Dot(A[a], v)]

\* c * v of a scalar and a vector
Scale(c, v) == [i \in DOMAIN v |-> RMul(c, v[i])]

\* np.zeros(n)
zeros(n) == [i \in Idx(n) |-> Zero]

\* np.eye(n)
eye(n) == [i \in Idx(n) |-> [j \in Idx(n) |-> IF i = j THEN One ELSE Zero]]

None == <<>>

\* the d-vector with a one at position i
UnitVec(d, i) == [j \in Idx(d) |-> IF j = i THEN One ELSE Zero]

\* the uniform probability vector of length d
Uniform(d) == [j \in Idx(d) |-> Q(1, d)]

\* the d-vector with c everywhere
Const(d, c) == [j \in Idx(d) |-> c]

----------------------------------------------------------------------------
(* KLSufficientStatistics *)

NoSS == [live |-> FALSE]

\* Variant of __init__: rho0 is seeded with the indicator of cluster_id, as rho
\* is seeded with x
KLSufficientStatisticsSeeded(x, cluster_id, K, size) ==
    [live |-> TRUE, cluster_id |-> cluster_id, K |-> K,
     rho0 |-> [k \in Idx(K) |-> IF k = cluster_id THEN One ELSE Zero],
     rho |-> [d \in Idx(size) |->
                 [k \in Idx(K) |-> IF k = cluster_id THEN x[d] ELSE Zero]]]

\* KLSufficientStatistics.__init__
KLSufficientStatistics(x, cluster_id, K, size) ==
    LET rho0 == zeros(K)
        rho == [d \in Idx(size) |-> zeros(K)]
    IN  [live |-> TRUE, cluster_id |-> cluster_id, K |-> K,
         rho0 |-> rho0,
         rho |-> [d \in Idx(size) |-> [rho[d] EXCEPT ![cluster_id] = x[d]]]]

\* Variant of online_update: the decay factor (1 - step) is dropped
SSOnlineUpdateNoDecay(self, x, r, step) ==
    LET rho0 == VecDotMat(self.rho0, r)
        rho == MatDotMat(self.rho, r)
    IN  [self EXCEPT
            !.rho0 = [rho0 EXCEPT ![self.cluster_id] = RAdd(@, step)],
            !.rho = [d \in DOMAIN rho |->
                        [rho[d] EXCEPT ![self.cluster_id] =
                            RAdd(@, RMul(step, x[d]))]]]

\* Variant of online_update: r is applied from the wrong side (r.dot(rho0))
SSOnlineUpdateTransposed(self, x, r, step) ==
    LET rT == [i \in DOMAIN r |-> [j \in DOMAIN r |-> r[j][i]]]
        rho0 == Scale(RSub(One, step), VecDotMat(self.rho0, rT))
        rho == [d \in DOMAIN self.rho |->
                   Scale(RSub(One, step), VecDotMat(self.rho[d], rT))]
    IN  [self EXCEPT
            !.rho0 = [rho0 EXCEPT ![self.cluster_id] = RAdd(@, step)],
            !.rho = [d \in DOMAIN rho |->
                        [rho[d] EXCEPT ![self.cluster_id] =
                            RAdd(@, RMul(step, x[d]))]]]

\* Variant of online_update: the decay factor is written (step - 1)
SSOnlineUpdateSignFlip(self, x, r, step) ==
    LET c == RSub(step, One)
        rho0 == Scale(c, VecDotMat(self.rho0, r))
        rho == [d \in DOMAIN self.rho |-> Scale(c, VecDotMat(self.rho[d], r))]
    IN  [self EXCEPT
            !.rho0 = [rho0 EXCEPT ![self.cluster_id] = RAdd(@, step)],
            !.rho = [d \in DOMAIN rho |->
                        [rho[d] EXCEPT ![self.cluster_id] =
                            RAdd(@, RMul(step, x[d]))]]]

\* KLSufficientStatistics.online_update
SSOnlineUpdate(self, x, r, step) ==
    LET rho0 == Scale(RSub(One, step), VecDotMat(self.rho0, r))
        rho0b == [rho0 EXCEPT ![self.cluster_id] = RAdd(@, step)]
        rho == [d \in DOMAIN self.rho |->
                   Scale(RSub(One, step), VecDotMat(self.rho[d], r))]
        rhob == [d \in DOMAIN rho |->
                    [rho[d] EXCEPT ![self.cluster_id] =
                        RAdd(@, RMul(step, x[d]))]]
    IN  [self EXCEPT !.rho0 = rho0b, !.rho = rhob]

----------------------------------------------------------------------------
(* Distribution instances *)

\* Gaussian.__init__
Gaussian(mean, cov) ==
    [cls |-> "Gaussian", mean |-> mean, cov |-> cov, sigma2 |-> None]

\* SquareDistance.__init__
SquareDistance(mean, sigma2) ==
    [cls |-> "SquareDistance", mean |-> mean, cov |-> None, sigma2 |-> sigma2]

\* KL.__init__
KL(mean) == [cls |-> "KL", mean |-> mean, cov |-> None, sigma2 |-> None]

\* mean.shape[0]
dim(self) == Size(self.mean)

\* KL.new_sufficient_statistics
new_sufficient_statistics(self, x, cluster_id, K) ==
    KLSufficientStatistics(x, cluster_id, K, dim(self))

\* KL.online_max_likelihood
online_max_likelihood(self, rho_obs, phi) ==
    LET num == MatDotVec(rho_obs.rho, phi)
        den == Dot(rho_obs.rho0, phi)
    IN  [self EXCEPT !.mean = [d \in DOMAIN num |-> RDiv(num[d], den)]]

----------------------------------------------------------------------------
(* numpy.linalg and batch helpers *)

\* (-1)^k
Alt(k) == IF k % 2 = 0 THEN One ELSE RNeg(One)

\* the n x n matrix M without row r and column c
Minor(M, n, r, c) ==
    [i \in Idx(n - 1) |->
        [j \in Idx(n - 1) |->
            M[IF i < r THEN i ELSE i + 1][IF j < c THEN j ELSE j + 1]]]

RECURSIVE DetN(_, _)
DetN(M, n) ==
    IF n = 0 THEN One
    ELSE SumTo([j \in Idx(n) |->
                   RMul(RMul(Alt(j), M[0][j]), DetN(Minor(M, n, 0, j), n - 1))], n)

\* numpy.linalg.det
det(M) == DetN(M, Size(M))

\* numpy.linalg.inv raises LinAlgError("Singular matrix") on these
Singular(M) == det(M) = Zero

\* numpy.linalg.inv of a matrix that is not singular (adjugate over determinant;
\* nan entries make every entry nan)
inv(M) ==
    LET n == Size(M)
        dt == det(M)
    IN  [i \in Idx(n) |->
            [j \in Idx(n) |->
                RDiv(RMul(Alt(i + j), DetN(Minor(M, n, j, i), n - 1)), dt)]]

\* X - mean, row by row
Diff(X, mean) == [i \in DOMAIN X |-> [j \in DOMAIN mean |-> RSub(X[i][j], mean[j])]]

\* np.sum(diff * diff, axis=1)
SqDists(diff) == [i \in DOMAIN diff |-> Dot(diff[i], diff[i])]

\* np.diag(diff.dot(P).dot(diff.T))
QuadForms(diff, P) == [i \in DOMAIN diff |-> Dot(VecDotMat(diff[i], P), diff[i])]

\* np.sum(weights[:,nax] * X, axis=0) / np.sum(weights)
WeightedMean(X, w) ==
    [j \in DOMAIN X[0] |->
        RDiv(Sum([i \in DOMAIN X |-> RMul(w[i], X[i][j])]), Sum(w))]

RECURSIVE SumOver(_, _)
SumOver(f, S) ==
    IF S = {} THEN Zero
    ELSE LET i == CHOOSE i \in S : TRUE IN RAdd(f[i], SumOver(f, S \ {i}))

\* the rows a boolean mask selects
Selected(w) == {i \in DOMAIN w : w[i] = One}

\* X[weights,:].mean(axis=0); the mean of an empty selection is nan
MaskedMean(X, w) ==
    [j \in DOMAIN X[0] |->
        RDiv(SumOver([i \in DOMAIN X |-> X[i][j]], Selected(w)),
             Q(Cardinality(Selected(w)), 1))]

----------------------------------------------------------------------------
(* Values returned by the scoring methods.  A score is kept as the term    *)
(*   fn( lin + sum_k coef_k * log(arg_k * (2 pi)^p_k) )                    *)
(* with fn the identity or exp, lin, coef_k and arg_k rationals and each   *)
(* log atom a triple <<coef_k, arg_k, p_k>>.                               *)

Term(fn, lin, logs) == [fn |-> fn, lin |-> lin, logs |-> logs]

\* a call that returns value and leaves the instance as self
Return(self, value) == [self |-> self, outcome |-> "returned", value |-> value]

\* a call that raises exc
Raise(self, exc) == [self |-> self, outcome |-> exc, value |-> None]

----------------------------------------------------------------------------
(* Gaussian *)

\* Gaussian.distances
Gaussian_distances(self, X) ==
    LET diff == Diff(X, self.mean)
    IN  IF Singular(self.cov) THEN Raise(self, "LinAlgError")
        ELSE LET q == QuadForms(diff, inv(self.cov))
             IN  Return(self, [i \in DOMAIN X |-> Term("id", RMul(Half, q[i]), <<>>)])

\* Gaussian.max_likelihood
Gaussian_max_likelihood(self, X, weights) ==
    LET w == weights.v
        mean == WeightedMean(X, w)
        diff == Diff(X, mean)
        cov == [a \in DOMAIN mean |->
                   [b \in DOMAIN mean |->
                       RDiv(Sum([i \in DOMAIN X |->
                                    RMul(diff[i][a], RMul(w[i], diff[i][b]))]),
                            Sum(w))]]
    IN  Return([self EXCEPT !.mean = mean, !.cov = cov], None)

\* Gaussian.log_pdf
Gaussian_log_pdf(self, X) ==
    LET d == Q(dim(self), 1)
        diff == Diff(X, self.mean)
        dt == det(self.cov)
    IN  IF Singular(self.cov) THEN Raise(self, "LinAlgError")
        ELSE LET q == QuadForms(diff, inv(self.cov))
             IN  Return(self,
                     [i \in DOMAIN X |->
                         Term("id", RNeg(RMul(Half, q[i])),
                              << <<RNeg(RMul(Half, d)), One, 1>>,
                                 <<RNeg(Half), dt, 0>> >>)])

\* Gaussian.pdf
Gaussian_pdf(self, X, normalized) ==
    LET d == dim(self)
        diff == Diff(X, self.mean)
        dt == det(self.cov)
    IN  IF Singular(self.cov) THEN Raise(self, "LinAlgError")
        ELSE LET q == QuadForms(diff, inv(self.cov))
             IN  Return(self,
                     [i \in DOMAIN X |->
                         Term("exp", RNeg(RMul(Half, q[i])),
                              IF normalized THEN << <<RNeg(Half), dt, d>> >>
                              ELSE <<>>)])

----------------------------------------------------------------------------
(* SquareDistance *)

\* SquareDistance.distances
SquareDistance_distances(self, X) ==
    LET dists == SqDists(Diff(X, self.mean))
    IN  Return(self, [i \in DOMAIN X |-> Term("id", dists[i], <<>>)])

\* Variant of SquareDistance.max_likelihood: the mask is tested but not
\* applied, the mean is taken over every row
SquareDistance_max_likelihood_AllRows(self, X, weights) ==
    LET w == weights.v
        mean == IF weights.dtype = "bool" THEN MaskedMean(X, Const(Size(w), One))
                ELSE WeightedMean(X, w)
        dists == SqDists(Diff(X, mean))
        sigma2 == IF self.sigma2 # None
                  THEN RDiv(RMul(Half, Dot(dists, w)), Sum(w))
                  ELSE self.sigma2
    IN  Return([self EXCEPT !.mean = mean, !.sigma2 = sigma2], None)

\* SquareDistance.max_likelihood
SquareDistance_max_likelihood(self, X, weights) ==
    LET w == weights.v
        mean == IF weights.dtype = "bool" THEN MaskedMean(X, w)
                ELSE WeightedMean(X, w)
        dists == SqDists(Diff(X, mean))
        sigma2 == IF self.sigma2 # None
                  THEN RDiv(RMul(Half, Dot(dists, w)), Sum(w))
                  ELSE self.sigma2
    IN  Return([self EXCEPT !.mean = mean, !.sigma2 = sigma2], None)

\* Variant of SquareDistance.log_pdf: no assertion, an unset sigma2 is read
\* as unit variance
SquareDistance_log_pdf_Default(self, X) ==
    LET sigma2 == IF self.sigma2 = None THEN One ELSE self.sigma2
        d == Q(dim(self), 1)
        dists == SqDists(Diff(X, self.mean))
    IN  Return(self,
            [i \in DOMAIN X |->
                Term("id", RNeg(RDiv(RMul(Half, dists[i]), sigma2)),
                     << <<RNeg(RMul(Half, d)), One, 1>>,
                        <<RNeg(RMul(Half, d)), sigma2, 0>> >>)])

\* SquareDistance.log_pdf
SquareDistance_log_pdf(self, X) ==
    IF self.sigma2 = None THEN Raise(self, "AssertionError")
    ELSE LET d == Q(dim(self), 1)
             dists == SqDists(Diff(X, self.mean))
         IN  Return(self,
                 [i \in DOMAIN X |->
                     Term("id", RNeg(RDiv(RMul(Half, dists[i]), self.sigma2)),
                          << <<RNeg(RMul(Half, d)), One, 1>>,
                             <<RNeg(RMul(Half, d)), self.sigma2, 0>> >>)])

\* SquareDistance.pdf
SquareDistance_pdf(self, X, normalized) ==
    IF self.sigma2 = None THEN Raise(self, "AssertionError")
    ELSE LET d == Q(dim(self), 1)
             dists == SqDists(Diff(X, self.mean))
         IN  Return(self,
                 [i \in DOMAIN X |->
                     Term("exp", RNeg(RDiv(RMul(Half, dists[i]), self.sigma2)),
                          IF normalized
                          THEN << <<RNeg(RMul(Half, d)), self.sigma2, 1>> >>
                          ELSE <<>>)])

----------------------------------------------------------------------------
(* KL *)

\* X[i].dot(np.log(mean)) times sign: one log atom per category
LogDot(sign, row, mean) ==
    [j \in 1 .. Size(mean) |-> <<RMul(sign, row[j - 1]), mean[j - 1], 0>>]

\* KL.distances
KL_distances(self, X) ==
    Return(self, [i \in DOMAIN X |->
                     Term("id", Zero, LogDot(RNeg(One), X[i], self.mean))])

\* KL.max_likelihood
KL_max_likelihood(self, X, weights) ==
    LET w == weights.v
        mean == IF weights.dtype = "bool" THEN MaskedMean(X, w)
                ELSE WeightedMean(X, w)
    IN  Return([self EXCEPT !.mean = mean], None)

\* Variant of KL.online_update: the old mean is not decayed
KL_online_update_NoDecay(self, x, step) ==
    Return([self EXCEPT !.mean =
               [j \in DOMAIN self.mean |-> RAdd(self.mean[j], RMul(step, x[j]))]],
           None)

\* KL.online_update
KL_online_update(self, x, step) ==
    Return([self EXCEPT !.mean =
               [j \in DOMAIN self.mean |->
                   RAdd(RMul(RSub(One, step), self.mean[j]), RMul(step, x[j]))]],
           None)

\* Variant of KL.log_pdf: mean is renormalised in place before it is read
KL_log_pdf_Renormalise(self, X) ==
    LET mean == [j \in DOMAIN self.mean |-> RDiv(self.mean[j], Sum(self.mean))]
    IN  Return([self EXCEPT !.mean = mean],
               [i \in DOMAIN X |-> Term("id", Zero, LogDot(One, X[i], mean))])

\* KL.log_pdf
KL_log_pdf(self, X) ==
    Return(self, [i \in DOMAIN X |-> Term("id", Zero, LogDot(One, X[i], self.mean))])

\* KL.pdf
KL_pdf(self, X, normalized) ==
    Return(self, [i \in DOMAIN X |-> Term("exp", Zero, LogDot(One, X[i], self.mean))])

----------------------------------------------------------------------------
(* The Distribution interface: dispatch on the class of the instance *)

distances(self, X) ==
    CASE self.cls = "Gaussian" -> Gaussian_distances(self, X)
      [] self.cls = "SquareDistance" -> SquareDistance_distances(self, X)
      [] self.cls = "KL" -> KL_distances(self, X)

max_likelihood(self, X, weights) ==
    CASE self.cls = "Gaussian" -> Gaussian_max_likelihood(self, X, weights)
      [] self.cls = "SquareDistance" -> SquareDistance_max_likelihood(self, X, weights)
      [] self.cls = "KL" -> KL_max_likelihood(self, X, weights)

log_pdf(self, X) ==
    CASE self.cls = "Gaussian" -> Gaussian_log_pdf(self, X)
      [] self.cls = "SquareDistance" -> SquareDistance_log_pdf(self, X)
      [] self.cls = "KL" -> KL_log_pdf(self, X)

pdf(self, X, normalized) ==
    CASE self.cls = "Gaussian" -> Gaussian_pdf(self, X, normalized)
      [] self.cls = "SquareDistance" -> SquareDistance_pdf(self, X, normalized)
      [] self.cls = "KL" -> KL_pdf(self, X, normalized)

----------------------------------------------------------------------------
(* Arguments the driver supplies *)

\* observations: a probability vector and a vector that is not one
XVecs(d) == {UnitVec(d, d - 1), Const(d, Q(2, 1))}

\* K x K mixing matrices: the upper-triangular ones matrix (asymmetric, not
\* row-stochastic, the identity when K = 1) and one with negative entries
Upper(K) == [i \in Idx(K) |-> [j \in Idx(K) |-> IF i <= j THEN One ELSE Zero]]

NegEye(K) == [i \in Idx(K) |-> [j \in Idx(K) |-> IF i = j THEN RNeg(One) ELSE Zero]]

RMats(K) == {Upper(K), NegEye(K)}

\* step sizes: inside (0,1), the end point 1, and beyond it
Steps == {Half, One, Q(3, 2)}

\* responsibility vectors
Phis(K) == {UnitVec(K, K - 1), Const(K, One)}

NonNegVec(v) == \A i \in DOMAIN v : RGeqZero(v[i])

NonNegMat(m) == \A i \in DOMAIN m : NonNegVec(m[i])

\* entries non-negative and summing to 1
IsProb(v) == NonNegVec(v) /\ Sum(v) = One

----------------------------------------------------------------------------
(* The streaming driver: one KL distribution and its sufficient statistics *)

NoCall == [op |-> "none"]

NoPre == [nonneg |-> TRUE, stepLe1 |-> TRUE, prob |-> TRUE]

InitSS ==
    /\ dist = KL(Uniform(Dim))
    /\ ss = NoSS
    /\ lastCall = NoCall
    /\ outcome = "none"
    /\ result = None
    /\ nUpdates = 0
    /\ pre = NoPre

NewSufficientStatistics ==
    \E K \in 1 .. MaxK : \E cluster_id \in Idx(K) : \E x \in XVecs(dim(dist)) :
        /\ dist.cls = "KL"
        /\ ~ss.live
        /\ ss' = new_sufficient_statistics(dist, x, cluster_id, K)
        /\ lastCall' = [op |-> "new_sufficient_statistics", x |-> x,
                        cluster_id |-> cluster_id, K |-> K]
        /\ outcome' = "returned"
        /\ result' = None
        /\ pre' = [nonneg |-> NonNegVec(x), stepLe1 |-> TRUE, prob |-> IsProb(x)]
        /\ UNCHANGED <<dist, nUpdates>>

OnlineUpdateSS(x, r, step, bound) ==
    /\ ss.live
    /\ nUpdates < bound
    /\ ss' = SSOnlineUpdate(ss, x, r, step)
    /\ lastCall' = [op |-> "ss.online_update", x |-> x, r |-> r, step |-> step]
    /\ outcome' = "returned"
    /\ result' = None
    /\ nUpdates' = nUpdates + 1
    /\ pre' = [nonneg |-> pre.nonneg /\ NonNegVec(x) /\ NonNegMat(r)
                          /\ RGeqZero(step),
               stepLe1 |-> pre.stepLe1 /\ RLeq(step, One),
               prob |-> pre.prob /\ IsProb(x)]
    /\ UNCHANGED dist

SSUpdate ==
    /\ ss.live
    /\ \E x \in XVecs(dim(dist)) : \E r \in RMats(ss.K) : \E step \in Steps :
           OnlineUpdateSS(x, r, step, MaxUpdates)

OnlineMaxLikelihood ==
    /\ ss.live
    /\ dist.cls = "KL"
    /\ \E phi \in Phis(ss.K) :
           /\ dist' = online_max_likelihood(dist, ss, phi)
           /\ lastCall' = [op |-> "online_max_likelihood", phi |-> phi]
           /\ outcome' = "returned"
           /\ result' = None
           /\ UNCHANGED <<ss, nUpdates, pre>>

NextSS == NewSufficientStatistics \/ SSUpdate \/ OnlineMaxLikelihood

SpecSS == InitSS /\ [][NextSS]_vars

----------------------------------------------------------------------------
(* The batch driver: one distribution of any of the three classes, scored  *)
(* on batches and refitted in place                                        *)

\* rows of a batch: two indicator vectors and a vector of counts
XRow(d, t) ==
    IF t = 0 THEN UnitVec(d, 0)
    ELSE IF t = 1 THEN UnitVec(d, d - 1)
    ELSE Const(d, Q(2, 1))

\* NObs x d batches whose consecutive rows differ
Batches(d) == {[i \in Idx(NObs) |-> XRow(d, (i + s) % 3)] : s \in 0 .. 2}

\* the boolean mask selecting the first n rows
Mask(n) == [dtype |-> "bool", v |-> [i \in Idx(NObs) |-> IF i < n THEN One ELSE Zero]]

\* boolean masks (none, one row, all rows but the last, all rows) and weight
\* vectors (all zero, all one, increasing)
Weights ==
    {Mask(0), Mask(1), Mask(NObs - 1), Mask(NObs)}
    \cup {[dtype |-> "float64", v |-> Const(NObs, Zero)],
          [dtype |-> "float64", v |-> Const(NObs, One)],
          [dtype |-> "float64", v |-> [i \in Idx(NObs) |-> Q(i + 1, 1)]]}

\* the instances the driver may construct
Distributions ==
    {Gaussian(m, c) : m \in {zeros(Dim), UnitVec(Dim, 0)},
                      c \in {eye(Dim), [i \in Idx(Dim) |-> Const(Dim, One)]}}
    \cup {SquareDistance(m, s2) : m \in {zeros(Dim), UnitVec(Dim, 0)},
                                  s2 \in {None, One, Half}}
    \cup {KL(m) : m \in {Uniform(Dim), UnitVec(Dim, 0), Const(Dim, Q(2, 1))}}

ScoringOps == {"distances", "log_pdf", "pdf"}

MutatingOps == {"max_likelihood", "online_update", "online_max_likelihood"}

InitDist ==
    /\ dist \in Distributions
    /\ ss = NoSS
    /\ lastCall = NoCall
    /\ outcome = "none"
    /\ result = None
    /\ nUpdates = 0
    /\ pre = NoPre

\* the driver makes a call that ends as ret
Called(call, ret) ==
    /\ dist' = ret.self
    /\ lastCall' = call
    /\ outcome' = ret.outcome
    /\ result' = ret.value
    /\ UNCHANGED <<ss, pre>>

Distances ==
    \E X \in Batches(dim(dist)) :
        /\ Called([op |-> "distances", X |-> X], distances(dist, X))
        /\ UNCHANGED nUpdates

LogPdf ==
    \E X \in Batches(dim(dist)) :
        /\ Called([op |-> "log_pdf", X |-> X], log_pdf(dist, X))
        /\ UNCHANGED nUpdates

Pdf ==
    \E X \in Batches(dim(dist)) : \E normalized \in BOOLEAN :
        /\ Called([op |-> "pdf", X |-> X, normalized |-> normalized],
                  pdf(dist, X, normalized))
        /\ UNCHANGED nUpdates

MaxLikelihood ==
    \E X \in Batches(dim(dist)) : \E weights \in Weights :
        /\ Called([op |-> "max_likelihood", X |-> X, weights |-> weights],
                  max_likelihood(dist, X, weights))
        /\ UNCHANGED nUpdates

OnlineUpdate ==
    /\ dist.cls = "KL"
    /\ nUpdates < MaxOnline
    /\ \E x \in XVecs(dim(dist)) : \E step \in Steps :
          /\ Called([op |-> "online_update", x |-> x, step |-> step],
                    KL_online_update(dist, x, step))
          /\ nUpdates' = nUpdates + 1

\* (online_max_likelihood needs a statistics object; it is driven in SpecSS)
NextDist == Distances \/ LogPdf \/ Pdf \/ MaxLikelihood \/ OnlineUpdate

SpecDist == InitDist /\ [][NextDist]_vars

----------------------------------------------------------------------------
(* The driver of the convergence test: a fresh accumulator, updated with  *)
(* r = I and one constant step                                             *)

\* constant step sizes inside (0,1)
GeoSteps == {Q(1, 4), Half, Q(3, 4)}

InitGeo ==
    /\ dist = KL(Uniform(Dim))
    /\ \E K \in 1 .. MaxK : \E cluster_id \in Idx(K) : \E x \in XVecs(Dim) :
          /\ ss = new_sufficient_statistics(dist, x, cluster_id, K)
          /\ lastCall = [op |-> "new_sufficient_statistics", x |-> x,
                         cluster_id |-> cluster_id, K |-> K]
          /\ pre = [nonneg |-> NonNegVec(x), stepLe1 |-> TRUE, prob |-> IsProb(x)]
    /\ outcome = "returned"
    /\ result = None
    /\ nUpdates = 0

GeoUpdate ==
    \E x \in XVecs(dim(dist)) : \E s \in GeoSteps :
        /\ s = IF nUpdates = 0 THEN s ELSE lastCall.step
        /\ OnlineUpdateSS(x, eye(ss.K), s, MaxGeoUpdates)

NextGeo == GeoUpdate

SpecGeo == InitGeo /\ [][NextGeo]_vars

----------------------------------------------------------------------------
(* Claims about KLSufficientStatistics *)

\* sum of column k of rho
ColSum(rho, k) == Sum([d \in DOMAIN rho |-> rho[d][k]])

SSNonNeg(s) == NonNegVec(s.rho0) /\ NonNegMat(s.rho)

\* C1: immediately after KLSufficientStatistics(x, cluster_id, K, size), rho0
\* is the zero vector of length K, rho has shape size x K, column cluster_id
\* of rho equals x entry for entry and every other column is zero.
C1_Construct ==
    lastCall.op = "new_sufficient_statistics" =>
        /\ ss.K = lastCall.K
        /\ ss.cluster_id = lastCall.cluster_id
        /\ DOMAIN ss.rho0 = Idx(lastCall.K)
        /\ \A k \in Idx(lastCall.K) : ss.rho0[k] = Zero
        /\ DOMAIN ss.rho = Idx(Size(dist.mean))
        /\ \A d \in DOMAIN ss.rho :
              /\ DOMAIN ss.rho[d] = Idx(lastCall.K)
              /\ \A k \in Idx(lastCall.K) :
                    ss.rho[d][k] =
                        IF k = lastCall.cluster_id THEN lastCall.x[d] ELSE Zero

\* C1 happens: a statistics object made for the last of two clusters from an
\* observation whose entries differ
C1_Witness ==
    /\ lastCall.op = "new_sufficient_statistics"
    /\ lastCall.K = 2
    /\ lastCall.cluster_id = 1
    /\ lastCall.x[0] # lastCall.x[Dim - 1]
    /\ ss.rho[Dim - 1][1] = One

\* C2: online_update(x, r, step) yields rho0' = (1-step)*(rho0 . r) with step
\* added to entry cluster_id only and rho' = (1-step)*(rho . r) with step*x
\* added to column cluster_id only, both computed from the pre-update rho0
\* and rho; cluster_id and K are unchanged.
C2_OnlineUpdate ==
    [][lastCall'.op = "ss.online_update" =>
        \A x \in {lastCall'.x} : \A r \in {lastCall'.r} :
        \A step \in {lastCall'.step} : \A new \in {ss'} :
            /\ new.K = ss.K
            /\ new.cluster_id = ss.cluster_id
            /\ \A j \in Idx(ss.K) :
                  new.rho0[j] =
                      RAdd(RMul(RSub(One, step),
                                Sum([i \in Idx(ss.K) |-> RMul(ss.rho0[i], r[i][j])])),
                           IF j = ss.cluster_id THEN step ELSE Zero)
            /\ \A d \in DOMAIN ss.rho : \A j \in Idx(ss.K) :
                  new.rho[d][j] =
                      RAdd(RMul(RSub(One, step),
                                Sum([i \in Idx(ss.K) |-> RMul(ss.rho[d][i], r[i][j])])),
                           IF j = ss.cluster_id THEN RMul(step, x[d]) ELSE Zero)
    ]_vars

\* C2 happens: a second update of a two-cluster accumulator with an
\* asymmetric r, which moved mass from cluster 0 to cluster 1
C2_Witness ==
    /\ lastCall.op = "ss.online_update"
    /\ nUpdates = 2
    /\ ss.K = 2
    /\ ss.cluster_id = 0
    /\ lastCall.r = Upper(2)
    /\ lastCall.step = Half
    /\ RGtZero(ss.rho0[1])

\* C3 as stated: with every x, r and step given so far non-negative, every
\* entry of rho0 and rho is >= 0.
C3_Original == (ss.live /\ pre.nonneg) => SSNonNeg(ss)

\* C3 as amended: with every x and r given so far non-negative and every step
\* in [0,1], every entry of rho0 and rho is >= 0.
C3_NonNegative == (ss.live /\ pre.nonneg /\ pre.stepLe1) => SSNonNeg(ss)

\* C3 happens: two updates within the preconditions, after which a cluster
\* other than cluster_id holds mass
C3_Witness ==
    /\ ss.live
    /\ pre.nonneg
    /\ pre.stepLe1
    /\ nUpdates = 2
    /\ \E k \in Idx(ss.K) : k # ss.cluster_id /\ RGtZero(ss.rho0[k])

\* C5: when every observation given to the constructor and to online_update
\* is a probability vector, for every cluster k with rho0[k] > 0 the column
\* sum of rho[:,k] equals rho0[k], and online_max_likelihood sets mean to a
\* probability vector.  Stated here for the runs that also keep the
\* accumulator's own contract (r non-negative, every step in [0,1]).
C5_RunningMean ==
    /\ (ss.live /\ pre.prob /\ pre.nonneg /\ pre.stepLe1) =>
          \A k \in Idx(ss.K) :
              RGtZero(ss.rho0[k]) => ColSum(ss.rho, k) = ss.rho0[k]
    /\ (/\ lastCall.op = "online_max_likelihood"
        /\ pre.prob /\ pre.nonneg /\ pre.stepLe1
        /\ NonNegVec(lastCall.phi)
        /\ RGtZero(Dot(ss.rho0, lastCall.phi))) => IsProb(dist.mean)

\* The closed form of the recursion: after n updates with r = I and step s,
\* rho0[cluster_id] = 1 - (1-s)^n, which is below 1, and rho0[k] = 0 for
\* every other k.
C4_ClosedForm ==
    LET n == nUpdates
        cid == ss.cluster_id
    IN  /\ n = 0 => \A k \in Idx(ss.K) : ss.rho0[k] = Zero
        /\ n > 0 =>
              /\ ss.rho0[cid] = RSub(One, RPow(RSub(One, lastCall.step), n))
              /\ RLt(ss.rho0[cid], One)
              /\ \A k \in Idx(ss.K) : k # cid => ss.rho0[k] = Zero

\* Each such update strictly increases rho0[cluster_id] and shrinks its gap
\* to 1 by the factor (1-s).
C4_GapShrinks ==
    [][lastCall'.op = "ss.online_update" =>
        \A s \in {lastCall'.step} : \A new \in {ss'} :
            LET cid == ss.cluster_id
            IN  /\ RLt(ss.rho0[cid], new.rho0[cid])
                /\ RSub(One, new.rho0[cid]) =
                       RMul(RSub(One, s), RSub(One, ss.rho0[cid]))
    ]_vars

\* C4: with r = I and a constant step s in (0,1), rho0[cluster_id] follows
\* 1 - (1-s)^n towards 1, strictly increasing with its gap to 1 shrinking by
\* (1-s) per update, and rho0 stays 0 on every other cluster.
C4_Geometric == []C4_ClosedForm /\ C4_GapShrinks

\* C4 happens: four updates with step 1/4 have brought rho0[cluster_id] of a
\* two-cluster accumulator to 175/256
C4_Witness ==
    /\ nUpdates = 4
    /\ ss.K = 2
    /\ lastCall.step = Q(1, 4)
    /\ ss.rho0[ss.cluster_id] = Q(175, 256)

----------------------------------------------------------------------------
(* Claims about the distributions *)

AllZero(v) == \A i \in DOMAIN v : v[i] = Zero

AllOne(v) == \A i \in DOMAIN v : v[i] = One

\* C6: max_likelihood called with all-zero weights (or an all-False mask)
\* fails with an error; it never returns normally.
C6_FailsFast ==
    (lastCall.op = "max_likelihood" /\ AllZero(lastCall.weights.v))
        => outcome # "returned"

\* C7: on a SquareDistance whose sigma2 is unset, log_pdf(X) and
\* pdf(X, normalized) raise and return nothing, and leave mean and sigma2
\* as they were; they return a value only when sigma2 is set.
C7_Precondition ==
    [][(lastCall'.op \in {"log_pdf", "pdf"} /\ dist.cls = "SquareDistance") =>
        /\ dist' = dist
        /\ dist.sigma2 = None => (outcome' = "AssertionError" /\ result' = None)
        /\ outcome' = "returned" => (dist.sigma2 # None /\ result' # None)
    ]_vars

\* C7 happens: pdf without normalisation was called on a SquareDistance
\* without sigma2 and raised
C7_Witness ==
    /\ lastCall.op = "pdf"
    /\ ~lastCall.normalized
    /\ dist.cls = "SquareDistance"
    /\ dist.sigma2 = None
    /\ outcome = "AssertionError"

\* C8: SquareDistance.max_likelihood with a boolean mask selecting at least
\* one row sets mean to the average of exactly the selected rows; with
\* numeric weights all one it sets mean to the average of all rows; in both
\* cases an unset sigma2 stays unset.
C8_HardAndUnitWeights ==
    [][(lastCall'.op = "max_likelihood" /\ dist.cls = "SquareDistance") =>
        \A X \in {lastCall'.X} : \A w \in {lastCall'.weights} : \A new \in {dist'} :
            LET rows == {i \in DOMAIN X : w.v[i] = One}
                n == Q(Cardinality(rows), 1)
                all == Q(Cardinality(DOMAIN X), 1)
            IN  /\ (w.dtype = "bool" /\ rows # {}) =>
                      /\ \A j \in DOMAIN new.mean :
                            RMul(n, new.mean[j]) =
                                SumOver([i \in DOMAIN X |-> X[i][j]], rows)
                      /\ dist.sigma2 = None => new.sigma2 = None
                /\ (w.dtype = "float64" /\ AllOne(w.v)) =>
                      /\ \A j \in DOMAIN new.mean :
                            RMul(all, new.mean[j]) =
                                SumOver([i \in DOMAIN X |-> X[i][j]], DOMAIN X)
                      /\ dist.sigma2 = None => new.sigma2 = None
    ]_vars

\* C8 happens: a K-means centroid (no sigma2) refitted on a mask that selects
\* two of the three rows
C8_Witness ==
    /\ lastCall.op = "max_likelihood"
    /\ dist.cls = "SquareDistance"
    /\ dist.sigma2 = None
    /\ lastCall.weights.dtype = "bool"
    /\ Cardinality(Selected(lastCall.weights.v)) = 2
    /\ outcome = "returned"

\* C9: distances, log_pdf and pdf leave mean, cov and sigma2 unchanged,
\* whether they return or raise; the parameters change only through
\* max_likelihood, online_update and online_max_likelihood; repeating a
\* scoring call with nothing in between gives the same result.
C9_PureReads ==
    [][/\ lastCall'.op \in ScoringOps => dist' = dist
       /\ dist' # dist => lastCall'.op \in MutatingOps
       /\ (lastCall'.op \in ScoringOps /\ lastCall' = lastCall) =>
              (outcome' = outcome /\ result' = result)
    ]_vars

\* C9 happens: a scoring call that failed (singular covariance) on a Gaussian
\* refitted by max_likelihood on a one-row selection
C9_Witness ==
    /\ lastCall.op \in ScoringOps
    /\ dist.cls = "Gaussian"
    /\ outcome = "LinAlgError"
    /\ dist.cov = [i \in Idx(Dim) |-> Const(Dim, Zero)]

\* C10: KL.online_update(x, step) sets mean to (1-step)*mean + step*x; when
\* mean and x are probability vectors and 0 < step <= 1, the new mean is a
\* probability vector; step = 1 replaces mean by x.
C10_OnlineUpdate ==
    [][lastCall'.op = "online_update" =>
        \A x \in {lastCall'.x} : \A step \in {lastCall'.step} : \A new \in {dist'} :
            /\ \A j \in DOMAIN dist.mean :
                  new.mean[j] =
                      RAdd(RMul(RSub(One, step), dist.mean[j]), RMul(step, x[j]))
            /\ (IsProb(dist.mean) /\ IsProb(x) /\ RGtZero(step) /\ RLeq(step, One))
                  => IsProb(new.mean)
            /\ (step = One /\ \A j \in DOMAIN dist.mean : IsFinite(dist.mean[j]))
                  => new.mean = x
    ]_vars

\* C10 happens: two updates with step 1/2 towards the last category took the
\* uniform mean (1/2, 1/2) to (1/8, 7/8)
C10_Witness ==
    /\ lastCall.op = "online_update"
    /\ nUpdates = 2
    /\ lastCall.step = Half
    /\ IsProb(lastCall.x)
    /\ dist.mean = [j \in Idx(2) |-> IF j = 0 THEN Q(1, 8) ELSE Q(7, 8)]

====
